---- MODULE Spec2Model ----
(***************************************************************************)
(* Model of watcher.py: the FileWatcherChokidar controller that multiplexes *)
(* many watch registrations onto one chokidar subprocess.                   *)
(*                                                                          *)
(* Text (payload lines, uids, paths, JSON lines) is modelled as sequences   *)
(* of one-character strings so that str(), split(), path.join() and         *)
(* json.dumps() are computed and not assumed.                               *)
(***************************************************************************)
EXTENDS Integers, Sequences, FiniteSets, TLC

VARIABLES
    last_controller_id,  \* self._last_controller_id
    handlers,            \* self._handlers: uid text -> [alive, root_path]
    transport,           \* self._transport: None or the process it wraps
    pending_events,      \* self._pending_events: insertion-ordered uid -> events
    controllers,         \* FileWatcherController objects returned and not destroyed
    spawned,             \* number of subprocesses created so far
    readers,             \* processes whose transport has not yet reported closure
    wire,                \* the calls the last operation made on subprocesses
                         \* (Popen, send, close), in order
    running,             \* processes created and not yet closed by the controller
    told,                \* <<process, uid>>: a register command for uid was sent to it
    assigned,            \* log of the controller ids given out by register_watcher
    arrived,             \* data lines accepted since the last flush marker, per uid
    op,                  \* the operation that ran last and its argument
    raised,              \* the exception that escaped the last operation
    logged,              \* the log() calls of the last operation
    notified,            \* the on_file_event_async calls of the last operation
    stdout,              \* StringTransportHandler: the lines of bytes the child wrote and
                         \* the transport has not read yet
    reading,             \* whether the read loop of the transport still runs
    payloads             \* the texts read_data returned, in order

controller_vars ==
    <<last_controller_id, handlers, transport, pending_events, controllers,
      spawned, readers, wire, running, told, assigned, arrived, op, raised, logged, notified>>

reader_vars == <<stdout, reading, payloads>>

vars == <<controller_vars, reader_vars>>

-----------------------------------------------------------------------------
(* Bounds of the exploration *)

MaxWatchers == 2     \* register_watcher calls explored
MaxQueued == 2       \* size of pending_events (see queued)
MaxLines == 3        \* lines in the child's output explored by the read loop

-----------------------------------------------------------------------------
(* Text *)

None == 0
NoException == "none"

Digits == <<"0", "1", "2", "3", "4", "5", "6", "7", "8", "9">>

RECURSIVE str(_)
\* str(controller_id): the decimal text of a non-negative integer
str(n) == IF n < 10 THEN <<Digits[n + 1]>>
          ELSE str(n \div 10) \o <<Digits[(n % 10) + 1]>>

Contains(s, c) == \E i \in 1..Len(s) : s[i] = c

IndexOf(s, c) == CHOOSE i \in 1..Len(s) : s[i] = c /\ \A j \in 1..(i - 1) : s[j] # c

RECURSIVE split_all(_, _, _)
\* the split at every separator, whatever maxsplit says
split_all(s, sep, maxsplit) ==
    IF ~Contains(s, sep) THEN <<s>>
    ELSE LET i == IndexOf(s, sep)
         IN <<SubSeq(s, 1, i - 1)>> \o split_all(SubSeq(s, i + 1, Len(s)), sep, maxsplit)

RECURSIVE split(_, _, _)
\* payload.split(sep, maxsplit)
split(s, sep, maxsplit) ==
    IF maxsplit = 0 \/ ~Contains(s, sep) THEN <<s>>
    ELSE LET i == IndexOf(s, sep)
         IN <<SubSeq(s, 1, i - 1)>> \o split(SubSeq(s, i + 1, Len(s)), sep, maxsplit - 1)

\* os.path.join(root_path, cwd_relative_path), POSIX flavour
path_join(a, b) ==
    IF Len(b) > 0 /\ b[1] = "/" THEN b
    ELSE IF Len(a) = 0 \/ a[Len(a)] = "/" THEN a \o b
    ELSE a \o <<"/">> \o b

FLUSH == <<"<", "f", "l", "u", "s", "h", ">">>

COLON == ":"

-----------------------------------------------------------------------------
(* json.dumps(obj, ensure_ascii=False, sort_keys=False, separators=(',', ':')) *)

\* a string written without escaping
json_escape_none(s) == s

RECURSIVE json_escape(_)
json_escape(s) ==
    IF s = <<>> THEN <<>>
    ELSE (IF s[1] = "\"" \/ s[1] = "\\" THEN <<"\\", s[1]>> ELSE <<s[1]>>)
         \o json_escape(Tail(s))

json_string(s) == <<"\"">> \o json_escape(s) \o <<"\"">>

json_int(n) == str(n)

RECURSIVE json_items(_)
json_items(list) ==
    IF list = <<>> THEN <<>>
    ELSE json_string(Head(list))
         \o (IF Tail(list) = <<>> THEN <<>> ELSE <<",">> \o json_items(Tail(list)))

json_list(list) == <<"[">> \o json_items(list) \o <<"]">>

json_key(k) == json_string(k) \o <<":">>

K_register == <<"r", "e", "g", "i", "s", "t", "e", "r">>
K_unregister == <<"u", "n", "r", "e", "g", "i", "s", "t", "e", "r">>
K_cwd == <<"c", "w", "d">>
K_events == <<"e", "v", "e", "n", "t", "s">>
K_ignores == <<"i", "g", "n", "o", "r", "e", "s">>
K_patterns == <<"p", "a", "t", "t", "e", "r", "n", "s">>
K_uid == <<"u", "i", "d">>

\* _to_json(register_data): keys in insertion order (sort_keys=False)
register_line(root_path, patterns, events, ignores, controller_id) ==
    <<"{">> \o json_key(K_register) \o <<"{">>
        \o json_key(K_cwd) \o json_string(root_path) \o <<",">>
        \o json_key(K_events) \o json_list(events) \o <<",">>
        \o json_key(K_ignores) \o json_list(ignores) \o <<",">>
        \o json_key(K_patterns) \o json_list(patterns) \o <<",">>
        \o json_key(K_uid) \o json_int(controller_id)
    \o <<"}">> \o <<"}">>

\* _to_json({'unregister': controller_id})
unregister_line(controller_id) ==
    <<"{">> \o json_key(K_unregister) \o json_int(controller_id) \o <<"}">>

-----------------------------------------------------------------------------
(* Inputs *)

CREATE == <<"c", "r", "e", "a", "t", "e">>
CHANGE == <<"c", "h", "a", "n", "g", "e">>
DELETE == <<"d", "e", "l", "e", "t", "e">>

\* the arguments of register_watcher that are explored: two watches of one
\* directory that differ in every filter
Registrations ==
    { [root_path |-> <<"/", "r">>, patterns |-> <<<<"*">>>>,
       events |-> <<CREATE, CHANGE>>, ignores |-> <<>>],
      [root_path |-> <<"/", "r">>, patterns |-> <<<<"a">>, <<"b">>>>,
       events |-> <<DELETE>>, ignores |-> <<<<"\"", "x">>>>] }

\* the uids the explored data lines are about
LineUids == {str(1), str(2)}

\* "<uid>:<kind>:<relative path>" for the first two watches; the last line has
\* a colon inside the path
DataLines ==
    { u \o <<COLON>> \o CHANGE \o <<COLON, "a">> : u \in LineUids }
    \cup { str(1) \o <<COLON>> \o CREATE \o <<COLON, "b", COLON, "c">> }

Garbage == <<"g", "a", "r", "b", "a", "g", "e">>
OneColon == <<"1", COLON>> \o CHANGE

\* the lines the subprocess is taken to write
Payloads == DataLines \cup {FLUSH, Garbage, OneColon}

-----------------------------------------------------------------------------
(* Dictionaries *)

\* d[k] = v on a dict
dict_set(d, k, v) == [x \in DOMAIN d \cup {k} |-> IF x = k THEN v ELSE d[x]]

\* d.pop(k) for a key that is present
dict_pop(d, k) == [x \in DOMAIN d \ {k} |-> d[x]]

\* uid in self._pending_events
pending_has(p, uid) == \E i \in 1..Len(p) : p[i].uid = uid

pending_index(p, uid) == CHOOSE i \in 1..Len(p) : p[i].uid = uid

RECURSIVE queued(_)
\* the size of the pending map: its events, an entry without events counting as one
queued(p) ==
    IF p = <<>> THEN 0
    ELSE (IF Head(p).events = <<>> THEN 1 ELSE Len(Head(p).events)) + queued(Tail(p))

NoArrivals == [u \in LineUids |-> <<>>]

Call(name, proc, line) == [call |-> name, proc |-> proc, line |-> line]

RECURSIVE after_calls(_, _)
\* the processes that exist once `calls` were made, given those that existed before
after_calls(procs, calls) ==
    IF calls = <<>> THEN procs
    ELSE LET c == Head(calls)
         IN after_calls(IF c.call = "Popen" /\ c.proc # None THEN procs \cup {c.proc}
                        ELSE IF c.call = "close" THEN procs \ {c.proc}
                        ELSE procs,
                        Tail(calls))

-----------------------------------------------------------------------------
(* State after FileWatcherChokidar() *)

Init ==
    /\ last_controller_id = 0
    /\ handlers = <<>>
    /\ transport = None
    /\ pending_events = <<>>
    /\ controllers = {}
    /\ spawned = 0
    /\ readers = {}
    /\ wire = <<>>
    /\ running = {}
    /\ told = {}
    /\ assigned = <<>>
    /\ arrived = NoArrivals
    /\ op = [name |-> "init", arg |-> <<>>]
    /\ raised = NoException
    /\ logged = <<>>
    /\ notified = <<>>
    /\ stdout = <<>>
    /\ reading = FALSE
    /\ payloads = <<>>

-----------------------------------------------------------------------------
(* register_watcher and _on_watcher_added, _start_process *)

\* the counter is only moved off its initial value
next_controller_id_stuck(last) == IF last < 1 THEN last + 1 ELSE last

\* self._last_controller_id += 1
next_controller_id(last) == last + 1

\* the test for an existing transport is left out
needs_start_always(h, t) == DOMAIN h # {}

\* if len(self._handlers) and not self._transport
needs_start(h, t) == DOMAIN h # {} /\ t = None

\* the calls of _start_process and of the send that follows it
added_calls(start, proc, t, line) ==
    (IF start THEN <<Call("Popen", proc, <<>>)>> ELSE <<>>)
    \o (IF t # None THEN <<Call("send", t, line)>> ELSE <<>>)

\* popen_ok: whether subprocess.Popen gives a process with stdin and stdout;
\* otherwise Popen or _start_process raises
register_watcher(reg, popen_ok) ==
    LET controller_id == next_controller_id(last_controller_id)
        uid == str(controller_id)
        h1 == dict_set(handlers, uid, [alive |-> TRUE, root_path |-> reg.root_path])
        start == needs_start(h1, transport)
        proc == spawned + 1
        t1 == IF start THEN proc ELSE transport
        line == register_line(reg.root_path, reg.patterns, reg.events, reg.ignores,
                              controller_id)
    IN /\ last_controller_id < MaxWatchers
       /\ last_controller_id' = controller_id
       /\ assigned' = Append(assigned, controller_id)
       /\ handlers' = h1
       /\ op' = [name |-> "register_watcher", arg |-> uid, reg |-> reg]
       /\ notified' = <<>>
       /\ UNCHANGED <<pending_events, arrived, reader_vars>>
       /\ IF start /\ ~popen_ok
          THEN \* _start_process raises: nothing after line 133 runs and no
               \* FileWatcherController is returned
               /\ raised' = "RuntimeError"
               /\ logged' = <<>>
               /\ wire' = <<Call("Popen", None, <<>>)>>
               /\ UNCHANGED <<transport, spawned, readers, controllers, told>>
          ELSE /\ raised' = NoException
               /\ transport' = t1
               /\ spawned' = IF start THEN proc ELSE spawned
               /\ readers' = IF start THEN readers \cup {proc} ELSE readers
               /\ controllers' = controllers \cup {controller_id}
               /\ logged' = IF t1 = None THEN <<"ERROR: Failed creating transport">>
                            ELSE <<>>
               /\ wire' = added_calls(start, proc, t1, line)
               /\ told' = IF t1 # None THEN told \cup {<<t1, uid>>} ELSE told
       /\ running' = after_calls(running, wire')

-----------------------------------------------------------------------------
(* _end_process *)

\* the transport is closed but self._transport is not reset
end_process_keep(t) ==
    IF t # None
    THEN [transport |-> t, wire |-> <<Call("close", t, <<>>)>>,
          logged |-> <<"Watcher process ended">>]
    ELSE [transport |-> t, wire |-> <<>>, logged |-> <<>>]

end_process(t) ==
    IF t # None
    THEN [transport |-> None, wire |-> <<Call("close", t, <<>>)>>,
          logged |-> <<"Watcher process ended">>]
    ELSE [transport |-> t, wire |-> <<>>, logged |-> <<>>]

-----------------------------------------------------------------------------
(* FileWatcherController.destroy and _on_watcher_removed *)

\* the process is ended whatever the registry holds
should_end_always(h, t) == t # None

\* the process is never ended by an unregistration
should_end_never(h, t) == FALSE

\* if not len(self._handlers) and self._transport
should_end(h, t) == DOMAIN h = {} /\ t # None

\* what _on_watcher_removed does once the entry is popped
removed(h, t, controller_id) ==
    IF t = None
    THEN [transport |-> t, wire |-> <<>>,
          logged |-> <<"ERROR: Transport does not exist">>]
    ELSE LET sent == <<Call("send", t, unregister_line(controller_id))>>
             ended == end_process(t)
         IN IF should_end(h, t)
            THEN [ended EXCEPT !.wire = sent \o @]
            ELSE [transport |-> t, wire |-> sent, logged |-> <<>>]

destroy(controller_id) ==
    LET uid == str(controller_id)
        r == removed(dict_pop(handlers, uid), transport, controller_id)
    IN /\ controller_id \in controllers
       /\ controllers' = controllers \ {controller_id}
       /\ op' = [name |-> "destroy", arg |-> uid]
       /\ notified' = <<>>
       /\ UNCHANGED <<last_controller_id, assigned, pending_events, arrived,
                      spawned, readers, told, reader_vars>>
       /\ IF uid \notin DOMAIN handlers
          THEN \* self._handlers.pop(str(controller_id)) of an absent key
               /\ raised' = "KeyError"
               /\ logged' = <<>>
               /\ wire' = <<>>
               /\ UNCHANGED <<handlers, transport>>
          ELSE /\ raised' = NoException
               /\ handlers' = dict_pop(handlers, uid)
               /\ transport' = r.transport
               /\ wire' = r.wire
               /\ logged' = r.logged
       /\ running' = after_calls(running, wire')

-----------------------------------------------------------------------------
(* on_payload *)

\* every entry of the pending map is handed to a sink, registered or not
flush_all(p, h) ==
    [notified |-> [i \in 1..Len(p) |-> [uid |-> p[i].uid, events |-> p[i].events]],
     logged |-> <<>>,
     raised |-> NoException]

RECURSIVE flush(_, _)
\* for uid, events in self._pending_events.items(): ... ; the loop stops at the
\* first uid that self._handlers[uid] does not find
flush(p, h) ==
    IF p = <<>> THEN [notified |-> <<>>, logged |-> <<>>, raised |-> NoException]
    ELSE LET uid == Head(p).uid
             events == Head(p).events
         IN IF uid \notin DOMAIN h
            THEN [notified |-> <<>>, logged |-> <<>>, raised |-> "KeyError"]
            ELSE LET rest == flush(Tail(p), h)
                 IN IF ~h[uid].alive
                    THEN [rest EXCEPT !.logged =
                              <<"ERROR: on_payload(): Handler already deleted">> \o @]
                    ELSE [rest EXCEPT !.notified =
                              <<[uid |-> uid, events |-> events]>> \o @]

\* self._pending_events.clear(), which an exception in the loop skips
flushed(p, f) == IF f.raised = NoException THEN <<>> ELSE p

\* if uid not in self._pending_events: self._pending_events[uid] = []
pending_entry(p, uid) ==
    IF pending_has(p, uid) THEN p ELSE Append(p, [uid |-> uid, events |-> <<>>])

\* self._pending_events[uid].append(event)
pending_append(p, uid, event) ==
    [p EXCEPT ![pending_index(p, uid)].events = Append(@, event)]

\* every line is taken to hold a colon
invalid_output_never(payload) == FALSE

\* if ':' not in payload
invalid_output(payload) == ~Contains(payload, COLON)

\* The subprocess that writes the line: one whose transport still reads, and,
\* for a data line, one that was sent a register command for the uid of the line
writers(payload) ==
    IF payload \in DataLines
    THEN { proc \in readers : <<proc, split(payload, COLON, 2)[1]>> \in told }
    ELSE readers

on_payload(payload) ==
    /\ writers(payload) # {}
    /\ op' = [name |-> "on_payload", arg |-> payload]
    /\ wire' = <<>>
    /\ UNCHANGED <<last_controller_id, assigned, handlers, transport, controllers,
                   spawned, readers, running, told, reader_vars>>
    /\ IF payload = FLUSH
       THEN LET f == flush(pending_events, handlers)
            IN /\ notified' = f.notified
               /\ logged' = f.logged
               /\ raised' = f.raised
               /\ pending_events' = flushed(pending_events, f)
               /\ arrived' = NoArrivals
       ELSE IF invalid_output(payload)
       THEN /\ logged' = <<"Invalid watcher output">>
            /\ raised' = NoException
            /\ notified' = <<>>
            /\ UNCHANGED <<pending_events, arrived>>
       ELSE LET parts == split(payload, COLON, 2)
            IN IF Len(parts) # 3
               THEN \* uid, event_type, cwd_relative_path = ... cannot unpack
                    /\ raised' = "ValueError"
                    /\ logged' = <<>>
                    /\ notified' = <<>>
                    /\ UNCHANGED <<pending_events, arrived>>
               ELSE LET uid == parts[1]
                        event_type == parts[2]
                        cwd_relative_path == parts[3]
                        p1 == pending_entry(pending_events, uid)
                    IN /\ queued(pending_events) < MaxQueued
                       /\ notified' = <<>>
                       /\ IF uid \notin DOMAIN handlers
                          THEN \* _, root_path = self._handlers[uid]
                               /\ raised' = "KeyError"
                               /\ logged' = <<>>
                               /\ pending_events' = p1
                               /\ UNCHANGED arrived
                          ELSE LET event == <<event_type,
                                              path_join(handlers[uid].root_path,
                                                        cwd_relative_path)>>
                               IN /\ raised' = NoException
                                  /\ logged' = <<"event">>
                                  /\ pending_events' = pending_append(p1, uid, event)
                                  /\ arrived' = [arrived EXCEPT ![uid] = Append(@, event)]

-----------------------------------------------------------------------------
(* on_transport_close: the transport of process proc reports that it closed *)

on_transport_close(proc) ==
    LET ended == end_process(transport)
    IN /\ proc \in readers
       /\ readers' = readers \ {proc}
       /\ op' = [name |-> "on_transport_close", arg |-> str(proc)]
       /\ transport' = ended.transport
       /\ wire' = ended.wire
       /\ logged' = ended.logged
       /\ raised' = NoException
       /\ notified' = <<>>
       /\ running' = after_calls(running, wire')
       /\ UNCHANGED <<last_controller_id, assigned, handlers, pending_events,
                      controllers, spawned, arrived, told, reader_vars>>

-----------------------------------------------------------------------------
(* The host drops a handler: the weakref.ref held for uid goes dead *)

handler_deleted(uid) ==
    /\ uid \in DOMAIN handlers
    /\ handlers[uid].alive
    /\ handlers' = [handlers EXCEPT ![uid].alive = FALSE]
    /\ op' = [name |-> "handler_deleted", arg |-> uid]
    /\ raised' = NoException
    /\ logged' = <<>>
    /\ notified' = <<>>
    /\ wire' = <<>>
    /\ UNCHANGED <<last_controller_id, assigned, transport, pending_events,
                   controllers, spawned, readers, running, told, arrived,
                   reader_vars>>

-----------------------------------------------------------------------------

Next ==
    \/ \E reg \in Registrations, popen_ok \in BOOLEAN : register_watcher(reg, popen_ok)
    \/ \E controller_id \in controllers : destroy(controller_id)
    \/ \E payload \in Payloads : on_payload(payload)
    \/ \E proc \in readers : on_transport_close(proc)
    \/ \E uid \in DOMAIN handlers : handler_deleted(uid)

Spec == Init /\ [][Next]_vars

-----------------------------------------------------------------------------
(* StringTransportHandler.read_data and the loop that calls it *)

WHITESPACE == {" ", "\n", "\r", "\t"}

RECURSIVE decode(_)
\* data.decode('utf-8') over the bytes explored: ASCII bytes, the two bytes of
\* "é" (0xC3 0xA9) and the byte 0xFF; ok is FALSE where decode raises
decode(data) ==
    IF data = <<>> THEN [ok |-> TRUE, text |-> <<>>]
    ELSE IF Head(data) = "0xFF" \/ Head(data) = "0xA9" THEN [ok |-> FALSE, text |-> <<>>]
    ELSE IF Head(data) = "0xC3"
    THEN IF Len(data) >= 2 /\ data[2] = "0xA9"
         THEN LET rest == decode(SubSeq(data, 3, Len(data)))
              IN [rest EXCEPT !.text = <<"é">> \o @]
         ELSE [ok |-> FALSE, text |-> <<>>]
    ELSE LET rest == decode(Tail(data))
         IN [rest EXCEPT !.text = <<Head(data)>> \o @]

RECURSIVE lstrip(_)
lstrip(text) ==
    IF text # <<>> /\ Head(text) \in WHITESPACE THEN lstrip(Tail(text)) ELSE text

RECURSIVE rstrip(_)
rstrip(text) ==
    IF text # <<>> /\ text[Len(text)] \in WHITESPACE
    THEN rstrip(SubSeq(text, 1, Len(text) - 1)) ELSE text

\* text.strip()
strip(text) == lstrip(rstrip(text))

\* reader.readline(): the next line with its newline, b'' at the end of the stream
readline(stream) == IF stream = <<>> THEN <<>> ELSE Head(stream)

\* read_data on the line `data`: the text it returns, or StopLoopError
read_data(data) ==
    LET d == decode(data)
        text == IF d.ok THEN strip(d.text) ELSE <<>>
    IN [text |-> text,
        logged |-> IF d.ok THEN <<>> ELSE <<"decode error">>,
        raised |-> IF ~d.ok \/ text = <<>> THEN "StopLoopError" ELSE NoException]

NEWLINE == "\n"

\* what the child is taken to write: a data line, the flush marker, a line
\* with a two-byte character, an empty line and a line that is not UTF-8
OutputLines ==
    { <<"1", COLON>> \o CHANGE \o <<COLON, "a", NEWLINE>>,
      FLUSH \o <<NEWLINE>>,
      <<"1", COLON>> \o CHANGE \o <<COLON, "0xC3", "0xA9", NEWLINE>>,
      <<NEWLINE>>,
      <<"0xFF", NEWLINE>> }

RECURSIVE Streams(_)
\* the outputs of at most n lines
Streams(n) ==
    IF n = 0 THEN {<<>>}
    ELSE LET shorter == Streams(n - 1)
         IN shorter \cup { Append(st, line) : st \in shorter, line \in OutputLines }

InitReader ==
    /\ last_controller_id = 0
    /\ handlers = <<>>
    /\ transport = None
    /\ pending_events = <<>>
    /\ controllers = {}
    /\ spawned = 0
    /\ readers = {}
    /\ wire = <<>>
    /\ running = {}
    /\ told = {}
    /\ assigned = <<>>
    /\ arrived = NoArrivals
    /\ op = [name |-> "init", arg |-> <<>>]
    /\ raised = NoException
    /\ logged = <<>>
    /\ notified = <<>>
    /\ stdout \in Streams(MaxLines)
    /\ reading = TRUE
    /\ payloads = <<>>

\* One turn of the transport's read loop: it calls read_data, hands the text on
\* as a payload, and ends when read_data raises StopLoopError
read_loop ==
    LET r == read_data(readline(stdout))
    IN /\ reading
       /\ stdout' = IF stdout = <<>> THEN stdout ELSE Tail(stdout)
       /\ logged' = r.logged
       /\ IF r.raised = NoException
          THEN /\ payloads' = Append(payloads, r.text)
               /\ reading' = TRUE
          ELSE /\ payloads' = payloads
               /\ reading' = FALSE
       /\ UNCHANGED <<last_controller_id, handlers, transport, pending_events,
                      controllers, spawned, readers, wire, running, told, assigned,
                      arrived, op, raised, notified>>

NextReader == read_loop

SpecReader == InitReader /\ [][NextReader]_vars

-----------------------------------------------------------------------------
(* Vocabulary of the properties *)

IsFlush(o) == o.name = "on_payload" /\ o.arg = FLUSH

IsCall(o, name) == o.name = name

\* the number of on_file_event_async calls made for uid
Notifications(n, uid) == Cardinality({ i \in 1..Len(n) : n[i].uid = uid })

\* the calls of the given kind among `calls`
Calls(calls, kind) == SelectSeq(calls, LAMBDA c : c.call = kind)

\* no transport has reported closure so far
NoClosureReported == readers = 1..spawned

\* registry entries whose register_watcher call raised in _start_process: no
\* FileWatcherController was returned for them
FailedStarts == { uid \in DOMAIN handlers : \A c \in controllers : str(c) # uid }

\* the controller id whose text is uid
IdOf(uid) == CHOOSE c \in 1..MaxWatchers : str(c) = uid

-----------------------------------------------------------------------------
(* C1. As claimed: over register_watcher and destroy calls alone, after each
   call the transport exists if and only if the registry of handlers is
   non-empty. *)
C1_HandleIffRegistry ==
    ((IsCall(op, "register_watcher") \/ IsCall(op, "destroy")) /\ NoClosureReported)
    => (transport # None <=> DOMAIN handlers # {})

(* C1, amended: over register_watcher and destroy calls alone, the transport
   exists only if the registry is non-empty, and the registry is non-empty
   without a transport only when it holds an entry whose process start failed. *)
C1_HandleImpliesRegistry ==
    /\ transport # None => DOMAIN handlers # {}
    /\ (NoClosureReported /\ DOMAIN handlers # {} /\ transport = None)
       => FailedStarts # {}

\* a destroy that left other watches, and their process, in place
C1_Witness ==
    /\ IsCall(op, "destroy")
    /\ NoClosureReported
    /\ transport # None
    /\ DOMAIN handlers # {}
    /\ FailedStarts = {}

(* C2. The controller ids given out by register_watcher are strictly
   increasing, so none is given twice, and every registry entry belongs to
   exactly one of them. *)
C2_IdsStrictlyIncrease ==
    /\ \A i, j \in 1..Len(assigned) : i < j => assigned[i] < assigned[j]
    /\ \A uid \in DOMAIN handlers :
           Cardinality({ i \in 1..Len(assigned) : str(assigned[i]) = uid }) = 1

\* a second id was given out after a failed start or an unregistration
C2_Witness ==
    /\ Len(assigned) >= 2
    /\ IsCall(op, "register_watcher")
    /\ Cardinality(controllers) = 1

\* uid has queued events and a registered, live sink
Deliverable(p, h, uid) ==
    /\ pending_has(p, uid)
    /\ p[pending_index(p, uid)].events # <<>>
    /\ uid \in DOMAIN h
    /\ h[uid].alive

(* C3. As claimed: on each flush marker every uid with queued events and a
   live sink gets exactly one on_file_event_async call, and no other uid gets
   one. *)
C3_FlushNotifiesEachLiveWatchOnce ==
    [][IsFlush(op') =>
          \A uid \in LineUids :
              Notifications(notified', uid) =
                  IF Deliverable(pending_events, handlers, uid) THEN 1 ELSE 0]_vars

(* C4. As claimed: the batch a flush hands to the sink of a uid is exactly the
   events of the data lines accepted for that uid since the previous flush
   marker, in arrival order. *)
C4_BatchIsArrivalsSinceLastFlush ==
    [][IsFlush(op') =>
          \A i \in 1..Len(notified') :
              notified'[i].events = arrived[notified'[i].uid]]_vars

(* C5. As claimed: once a flush marker is processed the pending map is empty,
   whether or not each batch could be delivered. *)
C5_FlushEmptiesPending ==
    IsFlush(op) => pending_events = <<>>

(* C6. A destroy made while a transport exists removes the entry of its uid
   and sends the unregister command of its id; when that entry was the only
   one, the transport is then closed and self._transport becomes None; when
   other entries remain, nothing else is called and the transport stays. *)
C6_LastUnregisterStopsProcess ==
    [][(IsCall(op', "destroy") /\ transport # None) =>
          LET uid == op'.arg
              sent == Call("send", transport, unregister_line(IdOf(uid)))
          IN /\ uid \in DOMAIN handlers
             /\ uid \notin DOMAIN handlers'
             /\ IF DOMAIN handlers = {uid}
                THEN /\ wire' = <<sent, Call("close", transport, <<>>)>>
                     /\ transport' = None
                ELSE /\ wire' = <<sent>>
                     /\ transport' = transport]_vars

\* the only remaining watch was unregistered and its process stopped
C6_Witness ==
    /\ IsCall(op, "destroy")
    /\ DOMAIN handlers = {}
    /\ transport = None
    /\ Len(Calls(wire, "close")) = 1

(* C7. The controller owns at most one subprocess, the one self._transport
   wraps; Popen is called only by a register_watcher that found no transport,
   and a register_watcher that found one calls no Popen. *)
C7_AtMostOneProcess ==
    [][/\ Cardinality(running') <= 1
       /\ running' = (IF transport' = None THEN {} ELSE {transport'})
       /\ (Calls(wire', "Popen") # <<>> \/ spawned' # spawned)
          => (IsCall(op', "register_watcher") /\ transport = None)]_vars

\* a second process was started by the first registration after a teardown
C7_Witness ==
    /\ IsCall(op, "register_watcher")
    /\ spawned = 2
    /\ running = {2}
    /\ transport = 2

(* C8. As claimed: no exception escapes register_watcher, destroy, on_payload
   or on_transport_close. *)
C8_NoExceptionEscapes ==
    raised = NoException

(* C9. on_transport_close leaves no transport, notifies no sink and changes
   neither the registry nor the id counter; a register_watcher that finds
   registry entries but no transport, and whose process starts, calls Popen
   once and sends one command, the register command of the new id. *)
C9_ClosureOrphansWatches ==
    [][/\ IsCall(op', "on_transport_close")
          => /\ transport' = None
             /\ notified' = <<>>
             /\ handlers' = handlers
             /\ last_controller_id' = last_controller_id
       /\ (IsCall(op', "register_watcher") /\ transport = None
              /\ DOMAIN handlers # {} /\ raised' = NoException)
          => /\ Len(wire') = 2
             /\ wire'[1] = Call("Popen", transport', <<>>)
             /\ transport' \notin 0..spawned
             /\ \E reg \in Registrations :
                    wire'[2] = Call("send", transport',
                                    register_line(reg.root_path, reg.patterns, reg.events,
                                                  reg.ignores, last_controller_id'))
             /\ op'.arg = str(last_controller_id')
             /\ op'.arg \notin DOMAIN handlers]_vars

\* a watch registered after a closure, next to the watch the closure orphaned
C9_Witness ==
    /\ IsCall(op, "register_watcher")
    /\ raised = NoException
    /\ spawned = 2
    /\ Cardinality(DOMAIN handlers) = 2
    /\ FailedStarts = {}

(* C10. As claimed: when a register_watcher ends with no transport, the
   failure is logged, no command is sent, the id stays allocated and the
   registry keeps the entry. *)
C10_FailedStartIsLogged ==
    (IsCall(op, "register_watcher") /\ transport = None)
    => /\ logged = <<"ERROR: Failed creating transport">>
       /\ Calls(wire, "send") = <<>>
       /\ op.arg = str(last_controller_id)
       /\ op.arg \in DOMAIN handlers

(* C11. An on_payload line that holds no colon and is not the flush marker
   makes no on_file_event_async call, raises nothing, is logged, and leaves
   the pending map, the registry and the transport as they were. *)
C11_NoColonLineIsDropped ==
    [][(IsCall(op', "on_payload") /\ op'.arg # FLUSH /\ ~Contains(op'.arg, COLON))
          => /\ notified' = <<>>
             /\ raised' = NoException
             /\ logged' = <<"Invalid watcher output">>
             /\ pending_events' = pending_events
             /\ handlers' = handlers
             /\ transport' = transport]_vars

\* a line without a colon arrived while events were queued
C11_Witness ==
    /\ IsCall(op, "on_payload")
    /\ op.arg = Garbage
    /\ pending_events # <<>>
    /\ logged = <<"Invalid watcher output">>

\* the line the read loop is about to read is not valid UTF-8
AtUndecodableLine == reading /\ stdout # <<>> /\ ~decode(Head(stdout)).ok

(* C12. As claimed: a decode failure on a line of the child's output discards
   that line only; the read loop goes on and the lines after it are read. *)
C12_DecodeFailureKeepsReading ==
    [][AtUndecodableLine => reading']_vars

\* the uids that are keys of the pending map
PendingUids(p) == { p[i].uid : i \in 1..Len(p) }

(* C13. As claimed: processing a data line never leaves a key in the pending
   map for an id that has no registry entry; every key a line adds belongs to
   a watch that is registered when the line is processed. *)
C13_QueuedUidIsRegistered ==
    [][(IsCall(op', "on_payload") /\ ~IsFlush(op'))
          => (PendingUids(pending_events') \ PendingUids(pending_events))
                 \subseteq DOMAIN handlers]_vars

\* the positions of the colons of a line, and the first two of them
Colons(line) == { i \in 1..Len(line) : line[i] = COLON }
FirstColon(line) == CHOOSE i \in Colons(line) : \A j \in Colons(line) : i <= j
SecondColon(line) ==
    CHOOSE i \in Colons(line) \ {FirstColon(line)} :
        \A j \in Colons(line) \ {FirstColon(line)} : i <= j

\* the three fields of a line with two colons or more
UidOf(line) == SubSeq(line, 1, FirstColon(line) - 1)
KindOf(line) == SubSeq(line, FirstColon(line) + 1, SecondColon(line) - 1)
PathOf(line) == SubSeq(line, SecondColon(line) + 1, Len(line))

\* the events queued for uid
EventsOf(p, uid) == IF pending_has(p, uid) THEN p[pending_index(p, uid)].events ELSE <<>>

\* the event queued last for uid
LastQueued(p, uid) ==
    LET events == p[pending_index(p, uid)].events IN events[Len(events)]

(* C14. A data line with two colons or more for a registered watch raises
   nothing and queues one event for the id before the first colon, whose kind
   is the text between the first and the second colon and whose path is the
   watch's root joined with everything after the second colon, further colons
   included. *)
C14_SplitAtFirstTwoColons ==
    [][(/\ IsCall(op', "on_payload")
        /\ Cardinality(Colons(op'.arg)) >= 2
        /\ UidOf(op'.arg) \in DOMAIN handlers)
          => /\ raised' = NoException
             /\ EventsOf(pending_events', UidOf(op'.arg))
                    = Append(EventsOf(pending_events, UidOf(op'.arg)),
                             <<KindOf(op'.arg),
                               path_join(handlers[UidOf(op'.arg)].root_path,
                                         PathOf(op'.arg))>>)
        ]_vars

\* a line with three colons was queued: the path keeps the third colon
C14_Witness ==
    /\ IsCall(op, "on_payload")
    /\ Cardinality(Colons(op.arg)) = 3
    /\ raised = NoException
    /\ pending_has(pending_events, <<"1">>)
    /\ LastQueued(pending_events, <<"1">>) = <<CREATE, <<"/", "r", "/", "b", COLON, "c">>>>

-----------------------------------------------------------------------------
(* Reading a sent line back: a JSON reader for the texts _to_json writes
   (objects, lists, strings and non-negative integers, no white space).
   A read yields [t, v, n]: the kind and the value read and the position after
   it; t = "error" where the text is not JSON. *)

JsonError == [t |-> "error", v |-> <<>>, n |-> 0]

IsDigit(c) == \E k \in 1..Len(Digits) : Digits[k] = c
DigitValue(c) == (CHOOSE k \in 1..Len(Digits) : Digits[k] = c) - 1

RECURSIVE read_chars(_, _)
\* the characters of a string up to its closing quote, escapes undone
read_chars(s, i) ==
    IF i > Len(s) THEN JsonError
    ELSE IF s[i] = "\"" THEN [t |-> "str", v |-> <<>>, n |-> i + 1]
    ELSE IF s[i] = "\\"
    THEN IF i + 1 > Len(s) THEN JsonError
         ELSE LET r == read_chars(s, i + 2)
              IN IF r.t = "error" THEN JsonError ELSE [r EXCEPT !.v = <<s[i + 1]>> \o @]
    ELSE LET r == read_chars(s, i + 1)
         IN IF r.t = "error" THEN JsonError ELSE [r EXCEPT !.v = <<s[i]>> \o @]

read_string(s, i) ==
    IF i <= Len(s) /\ s[i] = "\"" THEN read_chars(s, i + 1) ELSE JsonError

RECURSIVE read_digits(_, _, _)
read_digits(s, i, acc) ==
    IF i <= Len(s) /\ IsDigit(s[i])
    THEN read_digits(s, i + 1, acc * 10 + DigitValue(s[i]))
    ELSE [t |-> "int", v |-> acc, n |-> i]

RECURSIVE read_value(_, _)
RECURSIVE read_items(_, _)
RECURSIVE read_members(_, _)

\* the values of a list, as read, after its "[" or after a ","
read_items(s, i) ==
    LET e == read_value(s, i)
    IN IF e.t = "error" \/ e.n > Len(s) THEN JsonError
       ELSE IF s[e.n] = "]" THEN [t |-> "list", v |-> <<e>>, n |-> e.n + 1]
       ELSE IF s[e.n] = ","
       THEN LET r == read_items(s, e.n + 1)
            IN IF r.t = "error" THEN JsonError ELSE [r EXCEPT !.v = <<e>> \o @]
       ELSE JsonError

\* the members of an object after its "{" or after a ",": pairs <<key, value>>
read_members(s, i) ==
    LET k == read_string(s, i)
    IN IF k.t = "error" \/ k.n > Len(s) \/ s[k.n] # ":" THEN JsonError
       ELSE LET e == read_value(s, k.n + 1)
            IN IF e.t = "error" \/ e.n > Len(s) THEN JsonError
               ELSE IF s[e.n] = "}"
               THEN [t |-> "obj", v |-> <<[key |-> k.v, value |-> e]>>, n |-> e.n + 1]
               ELSE IF s[e.n] = ","
               THEN LET r == read_members(s, e.n + 1)
                    IN IF r.t = "error" THEN JsonError
                       ELSE [r EXCEPT !.v = <<[key |-> k.v, value |-> e]>> \o @]
               ELSE JsonError

read_value(s, i) ==
    IF i > Len(s) THEN JsonError
    ELSE IF s[i] = "\"" THEN read_string(s, i)
    ELSE IF IsDigit(s[i]) THEN read_digits(s, i, 0)
    ELSE IF s[i] = "["
    THEN IF i + 1 <= Len(s) /\ s[i + 1] = "]"
         THEN [t |-> "list", v |-> <<>>, n |-> i + 2]
         ELSE read_items(s, i + 1)
    ELSE IF s[i] = "{"
    THEN IF i + 1 <= Len(s) /\ s[i + 1] = "}"
         THEN [t |-> "obj", v |-> <<>>, n |-> i + 2]
         ELSE read_members(s, i + 1)
    ELSE JsonError

\* json.loads(line): the whole line is one value
json_loads(line) ==
    LET r == read_value(line, 1)
    IN IF r.t # "error" /\ r.n = Len(line) + 1 THEN r ELSE JsonError

\* the members of object o whose key is k
Members(o, k) == SelectSeq(o.v, LAMBDA m : m.key = k)

\* object o has the key k exactly once, with a value of kind t
HasOnce(o, k, t) == Len(Members(o, k)) = 1 /\ Members(o, k)[1].value.t = t

Field(o, k) == Members(o, k)[1].value

\* line is a register command that carries exactly the registration reg under uid
IsRegisterOf(line, reg, controller_id) ==
    LET top == json_loads(line)
    IN /\ top.t = "obj"
       /\ Len(top.v) = 1
       /\ HasOnce(top, K_register, "obj")
       /\ LET r == Field(top, K_register)
          IN /\ Len(r.v) = 5
             /\ HasOnce(r, K_cwd, "str")
             /\ HasOnce(r, K_events, "list")
             /\ HasOnce(r, K_ignores, "list")
             /\ HasOnce(r, K_patterns, "list")
             /\ HasOnce(r, K_uid, "int")
             /\ Field(r, K_cwd).v = reg.root_path
             /\ \A k \in {K_events, K_ignores, K_patterns} :
                    \A i \in 1..Len(Field(r, k).v) : Field(r, k).v[i].t = "str"
             /\ [i \in 1..Len(Field(r, K_events).v) |-> Field(r, K_events).v[i].v]
                    = reg.events
             /\ [i \in 1..Len(Field(r, K_ignores).v) |-> Field(r, K_ignores).v[i].v]
                    = reg.ignores
             /\ [i \in 1..Len(Field(r, K_patterns).v) |-> Field(r, K_patterns).v[i].v]
                    = reg.patterns
             /\ Field(r, K_uid).v = controller_id

(* C15. A registration that returns with a process handle present sends
   exactly one command, to that process; read back as JSON the line is an
   object {"register": {...}} whose cwd, events, ignores, patterns and uid are
   each present once and equal the registration's root path, event kinds,
   ignores, patterns and the id just assigned. *)
C15_RegisterCommandRoundTrips ==
    [][(IsCall(op', "register_watcher") /\ raised' = NoException /\ transport' # None)
          => /\ Len(Calls(wire', "send")) = 1
             /\ Calls(wire', "send")[1].proc = transport'
             /\ IsRegisterOf(Calls(wire', "send")[1].line, op'.reg, last_controller_id')
        ]_vars

\* the registration with a quote in its ignores was sent as the second watch
C15_Witness ==
    /\ IsCall(op, "register_watcher")
    /\ raised = NoException
    /\ transport # None
    /\ op.reg.ignores = <<<<"\"", "x">>>>
    /\ last_controller_id = 2
    /\ Len(Calls(wire, "send")) = 1

-----------------------------------------------------------------------------

\* the uids of the watches that were registered and have been unregistered
Unregistered == { str(assigned[i]) : i \in 1..Len(assigned) } \ DOMAIN handlers

(* C16. No operation calls on_file_event_async for a watch that has been
   unregistered, whether its events were queued before the unregistration or
   a line for its id arrived after it. *)
C16_UnregisteredSinkIsSilent ==
    \A i \in 1..Len(notified) : notified[i].uid \notin Unregistered

\* a flush marker arrived while events queued before the unregistration of
\* their watch were still pending
C16_Witness ==
    /\ IsFlush(op)
    /\ \E i \in 1..Len(pending_events) :
          /\ pending_events[i].uid \in Unregistered
          /\ pending_events[i].events # <<>>

(* C17. As claimed: at a flush marker every watch that is registered with a
   live sink and has queued events is handed its own batch, whatever the other
   ids of the pending map are (dead sink, or unregistered after their events
   were queued). *)
C17_BatchesAreIsolated ==
    [][IsFlush(op') =>
          \A uid \in LineUids :
              Deliverable(pending_events, handlers, uid)
                  => \E i \in 1..Len(notified') :
                         notified'[i] = [uid |-> uid,
                                         events |-> EventsOf(pending_events, uid)]]_vars

(* C18. As claimed, for its first part: the unregister command a destroy sends
   goes to a process that was sent the register command of the same uid. *)
C18_UnregisterFollowsRegister ==
    [][IsCall(op', "destroy") =>
          \A i \in 1..Len(Calls(wire', "send")) :
              <<Calls(wire', "send")[i].proc, op'.arg>> \in told]_vars

(* C19. As claimed: the close callback of a process that is not the one
   self._transport refers to leaves self._transport as it is; the process
   started by a later registration is not closed. *)
C19_StaleCloseKeepsNewProcess ==
    [][(/\ IsCall(op', "on_transport_close")
        /\ transport # None
        /\ op'.arg # str(transport)
        /\ DOMAIN handlers # {})
          => /\ transport' = transport
             /\ Calls(wire', "close") = <<>>]_vars

====
